---- MODULE Spec2Model ----
(***************************************************************************)
(* Block-wise FP8 (E4M3FN) optimizer state of                              *)
(* torchao/prototype/low_bit_optim/subclass_fp8.py: the quantize_fp8 /     *)
(* dequantize codec and the OptimStateFp8 operator handlers.               *)
(*                                                                         *)
(* Number representation (exact rational arithmetic, no float32 rounding): *)
(*   - a wide-precision value is an integer count of half-floors, the      *)
(*     floor being the 1e-12 of clip(1e-12): Eps = 2 stands for 1e-12;     *)
(*   - an E4M3 code is an integer count of 2^-9, the subnormal step of the *)
(*     format, so 448 is 448 * 512 = 229376 and every finite code is       *)
(*     n * 2^j with n in 0..15, j in 0..14;                                *)
(*   - a scale entry is a rational <<num, den>>;                           *)
(*   - a decoded element is [num, den, pow]: the rational num / den        *)
(*     and pow = None when no inverse power was applied, else pow =       *)
(*     Some(k) and the element stands for (num/den) ** (1/k), kept         *)
(*     symbolic; a k entry is a rational <<num, den>>.                     *)
(***************************************************************************)
EXTENDS Integers, Sequences, FiniteSets, TLC

VARIABLES
    pc,     \* codec pipeline position
    inp,    \* codec input: [x, block_size, expand]
    enc,    \* result of quantize_fp8, or a foreign (codes, scale) pair
    obj,    \* result of constructing OptimStateFp8 from enc
    dec,    \* result of dequantize
    src,    \* copy_ source, origin of derived states, rank 1 shard
    dst,    \* copy_ destination, rank 2 shard
    out,    \* result of the last handler call
    last    \* last handler call: [op, err, pre]

vars == <<pc, inp, enc, obj, dec, src, dst, out, last>>

codecVars == <<pc, inp, enc, obj, dec>>

boxVars == <<src, dst, out, last>>

---------------------------------------------------------------------------
(* Bounds *)

MaxLen == 4

MaxN == 3

(* Program constants *)

FinfoMax == 448

FinfoMin == -448

Eps == 2

CodeDen == 512

MaxExp == 14

Vals == {-7, -3, 0, 1, 2, 5}

---------------------------------------------------------------------------
(* Arithmetic helpers *)

Abs(n) == IF n < 0 THEN -n ELSE n

Sign(n) == IF n < 0 THEN -1 ELSE IF n > 0 THEN 1 ELSE 0

Max2(a, b) == IF a >= b THEN a ELSE b

SeqMax(s) == CHOOSE m \in {s[i] : i \in DOMAIN s} : \A i \in DOMAIN s : s[i] <= m

SeqMin(s) == CHOOSE m \in {s[i] : i \in DOMAIN s} : \A i \in DOMAIN s : m <= s[i]

AbsSeq(s) == [i \in DOMAIN s |-> Abs(s[i])]

RECURSIVE Prod(_)
Prod(s) == IF Len(s) = 0 THEN 1 ELSE s[1] * Prod(Tail(s))

None == <<>>

Some(v) == <<v>>

NoErr == "none"

---------------------------------------------------------------------------
(* Tensors: flat row-major data, a shape and a dtype *)

Tensor(data, shape, dtype) == [data |-> data, shape |-> shape, dtype |-> dtype]

numel(t) == Len(t.data)

Vec(data, dtype) == Tensor(data, <<Len(data)>>, dtype)

NoTensor == Tensor(<<>>, <<0>>, "none")

(* E4M3FN: the place of the NaN bit pattern (S.1111.111) on the grid *)
Fp8NaN == 15 * 2^MaxExp

IsNaN(c) == Abs(c) = Fp8NaN

(* exponent index of the binade holding p/d (in 2^-9 units), 0 for subnormals *)
Binade(p, d) ==
    LET js == {j \in 0..MaxExp : 8 * 2^j * d <= p}
    IN  IF js = {} THEN 0 ELSE CHOOSE j \in js : \A i \in js : i <= j

(* spacing of the format at code c *)
Ulp(c) == 2^Binade(Abs(c), 1)

(* round-to-nearest-even of the non-negative rational p/d to the E4M3 grid *)
Fp8RoundMag(p, d) ==
    LET step == 2^Binade(p, d)
        lo   == (p \div (d * step)) * step
        hi   == lo + step
    IN  IF 2 * p > 29 * 2^MaxExp * d THEN Fp8NaN
        ELSE IF 2 * p < (lo + hi) * d THEN lo
        ELSE IF 2 * p > (lo + hi) * d THEN hi
        ELSE IF (lo \div step) % 2 = 0 THEN lo ELSE hi

Fp8Round(p, d) == Sign(p) * Fp8RoundMag(Abs(p), d)

---------------------------------------------------------------------------
(* quantize_fp8 *)

Result(err, codes, scale, k) == [err |-> err, codes |-> codes, scale |-> scale, k |-> k]

Raise(err) == Result(err, NoTensor, NoTensor, None)

(* input.view(-1, block_size) succeeds *)
CanView2D(n, block_size) ==
    /\ block_size > 0
    /\ n % block_size = 0

Block(data, r, block_size) == SubSeq(data, (r - 1) * block_size + 1, r * block_size)

(* torch.finfo(DTYPE).max / torch.finfo(DTYPE).min: a Python float, as a rational *)
Rdtype == [type |-> "float", num |-> FinfoMax, den |-> FinfoMin]

(* input.abs().amax(-1).clip(1e-12) / input.abs().amin(-1).clip(1e-12), one block *)
Rx(block) ==
    [type |-> "Tensor",
     num |-> Max2(SeqMax(AbsSeq(block)), Eps),
     den |-> Max2(SeqMin(AbsSeq(block)), Eps)]

(* torch.log takes a Tensor and rejects a Python number *)
TorchLogAccepts(v) == v.type = "Tensor"

(* the scale taken from the block's smallest magnitude *)
ScaleAminBug(block) == <<Max2(SeqMin(AbsSeq(block)), Eps), FinfoMax>>

(* input.abs().amax(-1).clip(1e-12) / torch.finfo(DTYPE).max, one block *)
ScaleOf(block) == <<Max2(SeqMax(AbsSeq(block)), Eps), FinfoMax>>

(* (input / scale).to(DTYPE), one element *)
CodeOf(x, s) == Fp8Round(x * s[2] * CodeDen, s[1])

quantize_fp8(input, block_size, dynamic_range_expansion) ==
    IF ~CanView2D(numel(input), block_size) THEN Raise("RuntimeError")
    ELSE IF dynamic_range_expansion /\ ~TorchLogAccepts(Rdtype) THEN
        \* line 27 is reached on every such call and raises there at the latest,
        \* so lines 27-28 never produce a k or a transformed input
        Raise("TypeError")
    ELSE
        LET rows  == numel(input) \div block_size
            scale == [r \in 1..rows |-> ScaleOf(Block(input.data, r, block_size))]
            codes == [i \in 1..numel(input) |->
                        CodeOf(input.data[i], scale[((i - 1) \div block_size) + 1])]
        IN  Result(NoErr, Tensor(codes, input.shape, "fp8"), Vec(scale, "float"), None)

---------------------------------------------------------------------------
(* OptimStateFp8 *)

Obj(kind, codes, scale, k, block_size) ==
    [kind |-> kind, codes |-> codes, scale |-> scale, k |-> k, block_size |-> block_size]

(* a plain wide-precision tensor, held in the codes field *)
Plain(t) == Obj("Tensor", t, NoTensor, None, 0)

NoObj == Obj("none", NoTensor, NoTensor, None, 0)

IsFp8(o) == o.kind = "OptimStateFp8"

Ret(err, val) == [err |-> err, val |-> val]

Fail(err) == Ret(err, NoObj)

(* __new__(cls, codes, scale): no parameter takes a third argument *)
NewAccepts(kargs) == Len(kargs) = 0

(* codes.numel() // scale.numel() *)
BlockSize(codes, scale) == numel(codes) \div numel(scale)

(* OptimStateFp8(codes, scale, *kargs): __new__, then __init__ *)
OptimStateFp8(codes, scale, kargs) ==
    IF ~NewAccepts(kargs) THEN Fail("TypeError")
    ELSE IF codes.dtype # "fp8" THEN Fail("AssertionError")
    ELSE IF Len(scale.shape) # 1 THEN Fail("AssertionError")
    ELSE IF numel(scale) = 0 THEN Fail("ZeroDivisionError")
    ELSE Ret(NoErr, Obj("OptimStateFp8", codes, scale,
                        IF Len(kargs) = 0 THEN None ELSE kargs[1],
                        BlockSize(codes, scale)))

(* zeros(shape, block_size) for a 1-D shape <<n>> *)
zeros(n, block_size) ==
    IF block_size = 0 THEN Fail("ZeroDivisionError")
    ELSE OptimStateFp8(Vec([i \in 1..n |-> 0], "fp8"),
                       Vec([i \in 1..(n \div block_size) |-> <<0, 1>>], "float"),
                       <<>>)

(* bool(self.k): false for None, "ambiguous" (RuntimeError) for a tensor of
   several values, else whether the single value is non-zero *)
Truth(k) ==
    IF k = None THEN "false"
    ELSE IF numel(k[1]) # 1 THEN "ambiguous"
    ELSE IF k[1].data[1][1] # 0 THEN "true" ELSE "false"

(* two leading dimensions broadcast against each other *)
Broadcasts(a, b) == a = b \/ a = 1 \/ b = 1

(* one element of codes.float() * scale, then ** (1 / k) when k is truthy;
   0 ** e = 0 and 1 ** e = 1 for the positive exponents e = 1 / k *)
Elem(c, s, pow) ==
    [num |-> c * s[1],
     den |-> CodeDen * s[2],
     pow |-> IF c * s[1] = 0 \/ c * s[1] = CodeDen * s[2] THEN None ELSE pow]

dequantize(self) ==
    LET n  == numel(self.codes)
        bs == self.block_size
        m  == numel(self.scale)
    IN  IF ~CanView2D(n, bs) THEN Ret("RuntimeError", NoTensor)
        ELSE IF ~Broadcasts(n \div bs, m) THEN Ret("RuntimeError", NoTensor)
        ELSE IF Truth(self.k) = "ambiguous" THEN Ret("RuntimeError", NoTensor)
        ELSE IF Max2(n \div bs, m) * bs # n THEN Ret("RuntimeError", NoTensor)
        ELSE
            LET pow  == IF Truth(self.k) = "true" THEN Some(self.k[1].data[1]) ELSE None
                data == [i \in 1..n |->
                            Elem(self.codes.data[i],
                                       self.scale.data[IF m = 1 THEN 1
                                                       ELSE ((i - 1) \div bs) + 1],
                                       pow)]
            IN  Ret(NoErr, Tensor(data, self.codes.shape, "float"))

---------------------------------------------------------------------------
(* The codec pipeline: quantize_fp8, OptimStateFp8(...), dequantize *)

Seqs(S, n) == UNION {[1..m -> S] : m \in 1..n}

(* 1-D, and 2-D with two rows when the length is even *)
Shapes(n) == {<<n>>} \cup (IF n % 2 = 0 THEN {<<2, n \div 2>>} ELSE {})

FloatTensors ==
    UNION {{Tensor(d, sh, "float") : sh \in Shapes(Len(d))} : d \in Seqs(Vals, MaxLen)}

(* codes and scales of a state that quantize_fp8 did not produce *)
ForeignCodes == {Vec(d, "fp8") : d \in Seqs({0, 8 * 2^MaxExp}, MaxLen)}

ForeignScales == {Vec(d, "float") : d \in Seqs({<<Eps, FinfoMax>>}, MaxLen)}

Unset == "unset"

NoInp == [x |-> NoTensor, block_size |-> 0, expand |-> FALSE]

InitCodec ==
    /\ \/ /\ pc = "input"
          /\ inp \in [x : FloatTensors, block_size : 1..MaxLen, expand : BOOLEAN]
          /\ enc = Raise(Unset)
       \/ /\ pc = "foreign"
          /\ inp = NoInp
          /\ enc \in {Result(NoErr, c, sc, None) : c \in ForeignCodes, sc \in ForeignScales}
    /\ obj = Fail(Unset)
    /\ dec = Ret(Unset, NoTensor)
    /\ src = NoObj
    /\ dst = NoObj
    /\ out = NoObj
    /\ last = [op |-> "none", err |-> NoErr, pre |-> NoObj]

Encode ==
    /\ pc = "input"
    /\ enc' = quantize_fp8(inp.x, inp.block_size, inp.expand)
    /\ pc' = IF enc'.err = NoErr THEN "encoded" ELSE "failed"
    /\ UNCHANGED <<inp, obj, dec>>
    /\ UNCHANGED boxVars

(* the caller builds the state from the triple, with or without the third argument *)
Construct ==
    /\ pc \in {"encoded", "foreign"}
    /\ \E withK \in BOOLEAN :
          obj' = OptimStateFp8(enc.codes, enc.scale, IF withK THEN <<enc.k>> ELSE <<>>)
    /\ pc' = IF obj'.err = NoErr THEN "built" ELSE "failed"
    /\ UNCHANGED <<inp, enc, dec>>
    /\ UNCHANGED boxVars

Decode ==
    /\ pc = "built"
    /\ dec' = dequantize(obj.val)
    /\ pc' = IF dec'.err = NoErr THEN "decoded" ELSE "failed"
    /\ UNCHANGED <<inp, enc, obj>>
    /\ UNCHANGED boxVars

NextCodec == Encode \/ Construct \/ Decode

SpecCodec == InitCodec /\ [][NextCodec]_vars

---------------------------------------------------------------------------
(* The operator handlers of OptimStateFp8 *)

(* a wide-precision element v, in the representation of decoded elements *)
Wide(v) == [num |-> v, den |-> 1, pow |-> None]

Out(err, d) == [err |-> err, dst |-> d]

(* Tensor.copy_(other) on 1-D tensors: other must broadcast to self *)
CanCopy(self, other) == other.shape = self.shape \/ other.shape = <<1>>

TensorCopy(self, other) ==
    [self EXCEPT !.data = [i \in 1..numel(self) |->
                             other.data[IF numel(other) = 1 THEN 1 ELSE i]]]

(* lines 108-111, after the assertion *)
CopyFields(dst_, src_) ==
    IF ~CanCopy(dst_.codes, src_.codes) THEN Out("RuntimeError", dst_)
    ELSE LET d1 == [dst_ EXCEPT !.codes = TensorCopy(dst_.codes, src_.codes)]
         IN  IF ~CanCopy(d1.scale, src_.scale) THEN Out("RuntimeError", d1)
             ELSE LET d2 == [d1 EXCEPT !.scale = TensorCopy(d1.scale, src_.scale)]
                  IN  IF d2.k = None THEN Out("AttributeError", d2)
                      ELSE IF src_.k = None THEN Out("TypeError", d2)
                      ELSE IF ~CanCopy(d2.k[1], src_.k[1]) THEN Out("RuntimeError", d2)
                      ELSE Out(NoErr, [d2 EXCEPT !.k = Some(TensorCopy(d2.k[1], src_.k[1]))])

(* copy_ without line 108 *)
copy_unchecked(dst_, src_) ==
    IF IsFp8(dst_) /\ IsFp8(src_) THEN CopyFields(dst_, src_)
    ELSE IF IsFp8(dst_) THEN Out("UnboundLocalError", dst_)
    ELSE LET d == dequantize(src_)
         IN  IF d.err # NoErr THEN Out(d.err, dst_)
             ELSE IF ~CanCopy(dst_.codes, d.val) THEN Out("RuntimeError", dst_)
             ELSE Out(NoErr, Plain(TensorCopy(dst_.codes, d.val)))

(* aten.copy_.default *)
copy_(dst_, src_) ==
    IF IsFp8(dst_) /\ IsFp8(src_) THEN
        IF dst_.block_size # src_.block_size THEN Out("AssertionError", dst_)
        ELSE CopyFields(dst_, src_)
    ELSE IF IsFp8(dst_) THEN Out("UnboundLocalError", dst_)
    ELSE LET d == dequantize(src_)
         IN  IF d.err # NoErr THEN Out(d.err, dst_)
             ELSE IF ~CanCopy(dst_.codes, d.val) THEN Out("RuntimeError", dst_)
             ELSE Out(NoErr, Plain(TensorCopy(dst_.codes, d.val)))

(* aten._to_copy.default *)
to_copy(x) == OptimStateFp8(x.codes, x.scale, <<>>)

(* aten.view.default *)
view(x, shape) ==
    IF Prod(shape) # numel(x.codes) THEN Fail("RuntimeError")
    ELSE OptimStateFp8([x.codes EXCEPT !.shape = shape], x.scale, <<>>)

(* __tensor_flatten__: the inner tensors by name, and the attributes *)
tensor_flatten(x) == [data |-> [codes |-> x.codes, scale |-> x.scale], attributes |-> <<>>]

(* __tensor_unflatten__ *)
tensor_unflatten(f) == OptimStateFp8(f.data.codes, f.data.scale, f.attributes)

(* all_gather_into_tensor of one tensor per rank: concatenation along dim 0 *)
Gathered(ts) ==
    Tensor(ts[1].data \o ts[2].data,
           <<ts[1].shape[1] + ts[2].shape[1]>> \o Tail(ts[1].shape),
           ts[1].dtype)

(* the all_gather_into_tensor handler on the rank holding shards[me] *)
all_gather_into_tensor(shards, me) ==
    IF ~IsFp8(shards[me]) THEN Fail("ValueError")
    ELSE OptimStateFp8(Gathered(<<shards[1].codes, shards[2].codes>>),
                       Gathered(<<shards[1].scale, shards[2].scale>>),
                       <<>>)

(* the wait_tensor handler: func returns the waited tensor *)
wait_tensor(x) ==
    IF ~IsFp8(x) THEN Fail("ValueError")
    ELSE OptimStateFp8(x.codes, x.scale, <<>>)

---------------------------------------------------------------------------
(* Two states (or plain tensors) and the handler calls on them *)

BoxCodes == {Vec(d, "fp8") : d \in Seqs({0, 8 * 2^MaxExp}, MaxN)}

BoxScales == {Vec(d, "float") : d \in Seqs({<<5, FinfoMax>>}, MaxN)}

BoxPlain == {Vec(d, "float") : d \in Seqs({Wide(0), Wide(5)}, MaxN)}

KVals == {<<0, 1>>, <<1, 2>>}

SrcStates == {OptimStateFp8(c, sc, <<>>).val : c \in BoxCodes, sc \in BoxScales}

SrcPlain == {Plain(t) : t \in BoxPlain}

DstStates == UNION {{zeros(n, b).val : b \in 1..n} : n \in 1..MaxN}

DstPlain == {Plain(Vec([i \in 1..n |-> Wide(0)], "float")) : n \in 1..MaxN}

Call(op, err, pre) == [op |-> op, err |-> err, pre |-> pre]

DeriveOps == {"to_copy", "view", "flatten"}

GatherOps == {"all_gather", "wait_tensor"}

(* the states a derivation may start from: src, or the state just derived *)
Derivable ==
    (IF IsFp8(src) THEN {src} ELSE {})
        \cup (IF last.op \in DeriveOps /\ last.err = NoErr THEN {out} ELSE {})

Init ==
    /\ src \in SrcStates \/ src \in SrcPlain
    /\ dst \in DstStates \/ dst \in DstPlain
    /\ out = NoObj
    /\ last = Call("none", NoErr, NoObj)
    /\ pc = "idle"
    /\ inp = NoInp
    /\ enc = Raise(Unset)
    /\ obj = Fail(Unset)
    /\ dec = Ret(Unset, NoTensor)

(* a caller assigns the attribute k (one entry per block): __new__ takes no k,
   and lines 80, 111 and 119 read self.k as a tensor *)
AttachK ==
    /\ \E kv \in KVals :
          \/ /\ IsFp8(src)
             /\ src' = [src EXCEPT !.k = Some(Vec([i \in 1..numel(src.scale) |-> kv], "float"))]
             /\ dst' = dst
          \/ /\ IsFp8(dst)
             /\ dst' = [dst EXCEPT !.k = Some(Vec([i \in 1..numel(dst.scale) |-> kv], "float"))]
             /\ src' = src
    /\ out' = NoObj
    /\ last' = Call("attach", NoErr, NoObj)
    /\ UNCHANGED codecVars

Copy ==
    /\ IsFp8(dst) \/ IsFp8(src)
    /\ LET r == copy_(dst, src)
       IN  /\ dst' = r.dst
           /\ out' = IF r.err = NoErr THEN r.dst ELSE NoObj
           /\ last' = Call("copy_", r.err, dst)
    /\ UNCHANGED src
    /\ UNCHANGED codecVars

ToCopy ==
    /\ \E x \in Derivable :
          LET r == to_copy(x)
          IN  /\ out' = r.val
              /\ last' = Call("to_copy", r.err, NoObj)
    /\ UNCHANGED <<src, dst>>
    /\ UNCHANGED codecVars

View ==
    /\ \E x \in Derivable :
          \E shape \in Shapes(numel(x.codes)) \cup {<<numel(x.codes) + 1>>} :
             LET r == view(x, shape)
             IN  /\ out' = r.val
                 /\ last' = Call("view", r.err, NoObj)
    /\ UNCHANGED <<src, dst>>
    /\ UNCHANGED codecVars

FlattenUnflatten ==
    /\ \E x \in Derivable :
          LET r == tensor_unflatten(tensor_flatten(x))
          IN  /\ out' = r.val
              /\ last' = Call("flatten", r.err, NoObj)
    /\ UNCHANGED <<src, dst>>
    /\ UNCHANGED codecVars

(* every rank passes a tensor of the same shape to the collective *)
SameLayout(a, b) ==
    /\ a.codes.shape = b.codes.shape
    /\ a.scale.shape = b.scale.shape

AllGather ==
    /\ IsFp8(src)
    /\ IsFp8(dst)
    /\ SameLayout(src, dst)
    /\ \E me \in 1..2 :
          LET r == all_gather_into_tensor(<<src, dst>>, me)
          IN  /\ out' = r.val
              /\ last' = Call("all_gather", r.err, NoObj)
    /\ UNCHANGED <<src, dst>>
    /\ UNCHANGED codecVars

WaitTensor ==
    /\ last.op = "all_gather"
    /\ last.err = NoErr
    /\ LET r == wait_tensor(out)
       IN  /\ out' = r.val
           /\ last' = Call("wait_tensor", r.err, NoObj)
    /\ UNCHANGED <<src, dst>>
    /\ UNCHANGED codecVars

Next ==
    \/ AttachK
    \/ Copy
    \/ ToCopy
    \/ View
    \/ FlattenUnflatten
    \/ AllGather
    \/ WaitTensor

Spec == Init /\ [][Next]_vars

---------------------------------------------------------------------------
(* Properties of the codec pipeline (SpecCodec) *)

FromInput == inp # NoInp

ValidInput == FromInput /\ numel(inp.x) % inp.block_size = 0

ScaleAt(i) == enc.scale.data[((i - 1) \div inp.block_size) + 1]

AllZero(t) == \A i \in 1..numel(t) : t.data[i] = 0

(* C5: without range expansion, for every input whose element count is a
   multiple of block_size, encoding, building the state and decoding raise
   nothing, the decoded tensor has the input's shape, and every decoded
   element is within one E4M3 step (the spacing of the format at that
   element's code) times the block's scale of the input element. *)
RoundTripNoExpansion ==
    (ValidInput /\ ~inp.expand) =>
        /\ enc.err \in {Unset, NoErr}
        /\ obj.err = NoErr => dec.err \in {Unset, NoErr}
        /\ dec.err = NoErr =>
              /\ dec.val.shape = inp.x.shape
              /\ numel(dec.val) = numel(inp.x)
              /\ \A i \in 1..numel(inp.x) :
                    LET e == dec.val.data[i]
                        c == enc.codes.data[i]
                    IN  /\ ~IsNaN(c)
                        /\ e.pow = None
                        /\ Abs(e.num - inp.x.data[i] * e.den) <= Ulp(c) * ScaleAt(i)[1]

(* a decoded two-block 2-D input with a negative element and an element that
   the format does not represent exactly at the block's scale *)
RoundTripWitness ==
    /\ pc = "decoded"
    /\ FromInput
    /\ ~inp.expand
    /\ inp.block_size = 2
    /\ inp.x.shape = <<2, 2>>
    /\ \E i \in 1..numel(inp.x) : inp.x.data[i] < 0
    /\ \E i \in 1..numel(inp.x) : dec.val.data[i].num # inp.x.data[i] * dec.val.data[i].den

(* C6: with range expansion, encoding then decoding a valid input raises
   nothing, returns a k, and every decoded element has the sign of the
   input element. *)
SignPreserved ==
    (ValidInput /\ inp.expand) =>
        /\ enc.err \in {Unset, NoErr}
        /\ enc.err = NoErr => enc.k # None
        /\ dec.err = NoErr =>
              \A i \in 1..numel(inp.x) : Sign(dec.val.data[i].num) = Sign(inp.x.data[i])

(* C7: an all-zero input, with range expansion disabled or enabled, encodes
   without a fault to all-zero codes and a scale of 1e-12 / max(E4M3) per
   block, and decodes to all zeros. *)
ZeroHandling ==
    (ValidInput /\ AllZero(inp.x)) =>
        /\ enc.err \in {Unset, NoErr}
        /\ enc.err = NoErr =>
              /\ AllZero(enc.codes)
              /\ \A r \in 1..numel(enc.scale) : enc.scale.data[r] = <<Eps, FinfoMax>>
        /\ obj.err = NoErr => dec.err \in {Unset, NoErr}
        /\ dec.err = NoErr => \A i \in 1..numel(dec.val) : dec.val.data[i].num = 0

(* C7, the half that holds: the same with range expansion disabled *)
ZeroHandlingNoExpansion == inp.expand \/ ZeroHandling

(* C9: with range expansion enabled encode returns k = log(R_fmt) / log(R_block)
   per block, R_fmt being a positive constant greater than 1, and k is absent
   exactly when range expansion is disabled. *)
ExponentReturned ==
    (ValidInput /\ enc.err # Unset) =>
        /\ inp.expand =>
              /\ Rdtype.num * Rdtype.den > 0
              /\ Abs(Rdtype.num) > Abs(Rdtype.den)
              /\ enc.err = NoErr
              /\ enc.k # None
        /\ ~inp.expand => enc.k = None

(* C4: when scale's length does not divide codes' element count, the state
   is not built with a truncated block_size, no decoded tensor is returned,
   and the error signalled is the malformed-state error. *)
MalformedSignalled ==
    (/\ ~FromInput
     /\ numel(enc.codes) % numel(enc.scale) # 0
     /\ obj.err \notin {Unset, "TypeError"}) =>
        /\ obj.err \in {NoErr, "MalformedState"}
        /\ obj.err = NoErr => obj.val.block_size * numel(enc.scale) = numel(enc.codes)
        /\ (obj.err = NoErr /\ dec.err # Unset) => dec.err = "MalformedState"

(* C4, the part that holds: no decoded tensor is returned for such a state *)
MalformedNeverDecodes ==
    (~FromInput /\ numel(enc.codes) % numel(enc.scale) # 0) => dec.err # NoErr

---------------------------------------------------------------------------
(* Properties of the handlers (Spec) *)

CopyOfStates == last.op = "copy_" /\ IsFp8(last.pre) /\ IsFp8(src)

(* C1: a copy_ between two quantized states of different block_size raises,
   and the destination is left exactly as it was before the call. *)
CopyMismatchRejected ==
    (CopyOfStates /\ last.pre.block_size # src.block_size) =>
        /\ last.err # NoErr
        /\ dst = last.pre

(* a rejected copy whose first field copy would have gone through and changed
   the destination's codes *)
CopyMismatchWitness ==
    /\ CopyOfStates
    /\ last.pre.block_size # src.block_size
    /\ CanCopy(last.pre.codes, src.codes)
    /\ last.pre.codes # src.codes
    /\ last.err = "AssertionError"

(* C2: a copy_ between two quantized states of equal block_size (and equal
   shapes) raises nothing, leaves the destination's codes, scale and k equal
   to the source's, whether k is present or absent, and the destination then
   decodes as the source does. *)
CopySameBlockSize ==
    (CopyOfStates /\ last.pre.block_size = src.block_size /\ SameLayout(last.pre, src)) =>
        /\ last.err = NoErr
        /\ dst.codes = src.codes
        /\ dst.scale = src.scale
        /\ dst.k = src.k
        /\ dequantize(dst) = dequantize(src)

(* C2, the case that holds: both states carry a k of the same shape *)
CopySameBlockSizeWithK ==
    (/\ CopyOfStates
     /\ last.pre.block_size = src.block_size
     /\ SameLayout(last.pre, src)
     /\ last.pre.k # None
     /\ src.k # None) => CopySameBlockSize

ToVals(t) == Tensor([i \in 1..numel(t) |-> t.data[i].num], t.shape, t.dtype)

(* C3: a copy_ of a plain tensor of valid size into a quantized state raises
   nothing and replaces the destination's fields by quantize_fp8 of the
   source at the destination's block_size and range-expansion setting. *)
CopyFromWide ==
    (/\ last.op = "copy_"
     /\ IsFp8(last.pre)
     /\ ~IsFp8(src)
     /\ numel(src.codes) = numel(last.pre.codes)
     /\ numel(src.codes) % last.pre.block_size = 0) =>
        /\ last.err = NoErr
        /\ LET q == quantize_fp8(ToVals(src.codes), last.pre.block_size, last.pre.k # None)
           IN  /\ q.err = NoErr
               /\ dst.codes.data = q.codes.data
               /\ dst.scale.data = q.scale.data

ShardsDecode == dequantize(src).err = NoErr /\ dequantize(dst).err = NoErr

(* C8: the state built by the all-gather (and wait) handler from shards of
   equal block_size carries the shards' k in rank order and decodes to the
   concatenation, in rank order, of the shards' decodes, with k absent on
   every shard and with k present on every shard. *)
GatherDecodes ==
    (/\ last.op \in GatherOps
     /\ src.block_size = dst.block_size
     /\ (src.k = None) = (dst.k = None)) =>
        /\ last.err = NoErr
        /\ (src.k = None /\ dst.k = None) => out.k = None
        /\ (src.k # None /\ dst.k # None) => out.k = Some(Gathered(<<src.k[1], dst.k[1]>>))
        /\ ShardsDecode =>
              /\ dequantize(out).err = NoErr
              /\ dequantize(out).val.data = dequantize(src).val.data \o dequantize(dst).val.data

(* C8, the half that holds: shards without k *)
GatherDecodesNoK == (src.k = None /\ dst.k = None) => GatherDecodes

(* C10: a state derived by _to_copy, view or flatten/unflatten, in any
   sequence, has the origin's block_size and k and decodes to the origin's
   values. *)
DerivedKeepsFields ==
    (last.op \in DeriveOps /\ last.err = NoErr) =>
        /\ out.block_size = src.block_size
        /\ out.k = src.k
        /\ dequantize(out).err = dequantize(src).err
        /\ dequantize(out).val.data = dequantize(src).val.data

(* C10, the half that holds: an origin without k *)
DerivedKeepsFieldsNoK == src.k = None => DerivedKeepsFields

====
